---- MODULE Spec2Model ----
(***************************************************************************)
(* Model of the analytics router (src/unnamed/part_000): six read-only     *)
(* admin endpoints over the User and Challenge collections.  Every handler *)
(* is a sequence of awaited data-store reads followed by a synchronous     *)
(* computation and res.json; other requests (user sign-ups, challenge      *)
(* edits) may run between two awaited reads.                               *)
(*                                                                         *)
(* Time is counted in ticks, DayTicks ticks to a day.  Numbers printed by  *)
(* toFixed(2) are carried as integer hundredths.                           *)
(***************************************************************************)
EXTENDS Integers, Sequences, FiniteSets, TLC

VARIABLES
    users,        \* the User collection, in insertion order
    challenges,   \* the Challenge collection, in insertion order
    now,          \* the wall clock (Date.now()), in ticks
    pc,           \* where the one request under observation stands
    loc,          \* the handler's const/let bindings so far
    res,          \* the responses written to `res`, in order
    reads,        \* history: outcome of every data-store read issued
    interleaved   \* history: the collections written to in mid-request

vars == <<users, challenges, now, pc, loc, res, reads, interleaved>>

----------------------------------------------------------------------------
(* Bounds of the model *)

DayTicks == 2
MaxTicks == 2
MaxUsers == 3
MaxChallenges == 2
MaxEngagementUsers == 3
MaxCategoryChallenges == 3
MaxOrderChallenges == 6
MaxLeaderUsers == 11
MaxSubmissionUsers == 3
MaxSolved == 9

(* Program constants *)

ThirtyDays == 30 * DayTicks
SevenDaysTypo == 70 * DayTicks
SevenDays == 7 * DayTicks
Now0 == ThirtyDays + (2 * DayTicks)

HighSolved == 5
MediumSolved == 2
TopCount == 5
LeaderLimit == 10

\* an absent field (solvedChallenges, solvedBy or points undefined)
Missing == -1

\* what toFixed prints for x / 0 ("NaN", "Infinity"): not a finite number
NaN == -2

----------------------------------------------------------------------------
(* Generic helpers *)

SeqsUpTo(S, n) == UNION {[1..k -> S] : k \in 0..n}

RECURSIVE SumSeq(_)
SumSeq(s) == IF s = <<>> THEN 0 ELSE Head(s) + SumSeq(Tail(s))

RECURSIVE SumFun(_, _)
SumFun(f, D) ==
    IF D = {} THEN 0
    ELSE LET k == CHOOSE x \in D : TRUE IN f[k] + SumFun(f, D \ {k})

Take(s, n) == SubSeq(s, 1, IF Len(s) < n THEN Len(s) ELSE n)

Front(s) == SubSeq(s, 1, Len(s) - 1)

\* a stable sort of <<key, element>> pairs, ascending by key: elements with
\* equal keys (comparator result 0) keep their relative order
RECURSIVE InsertPair(_, _)
InsertPair(sorted, p) ==
    IF sorted = <<>> THEN <<p>>
    ELSE IF sorted[Len(sorted)][1] <= p[1] THEN Append(sorted, p)
    ELSE Append(InsertPair(Front(sorted), p), sorted[Len(sorted)])

RECURSIVE SortPairs(_)
SortPairs(s) ==
    IF s = <<>> THEN <<>> ELSE InsertPair(SortPairs(Front(s)), s[Len(s)])

\* Array.prototype.sort((a, b) => key(a) - key(b)), and the store's sort;
\* keys[i] is the key of s[i]
StableSort(s, keys) ==
    LET sorted == SortPairs([i \in DOMAIN s |-> <<keys[i], s[i]>>])
    IN [i \in DOMAIN s |-> sorted[i][2]]

\* x || 0 for a numeric field that may be absent
OrZero(x) == IF x = Missing THEN 0 ELSE x

\* user.solvedChallenges?.length || 0
SolvedLen(u) == OrZero(u.solvedChallenges)

\* challenge.solvedBy?.length || 0
SolvesOf(c) == OrZero(c.solvedBy)

\* the solved-set sizes / solver counts of a sequence of documents
SolvedLens(us) == [i \in DOMAIN us |-> SolvedLen(us[i])]

SolvesOfAll(cs) == [i \in DOMAIN cs |-> SolvesOf(cs[i])]

\* Number.prototype.toFixed(2) of num/den (num >= 0, den > 0), in hundredths:
\* the nearest hundredth, the larger one on a tie.
ToFixed2(num, den) ==
    IF den = 0 THEN NaN ELSE ((200 * num) + den) \div (2 * den)

----------------------------------------------------------------------------
(* The data store as the handlers use it *)

\* a filter document: {} | {createdAt: {$gte: v}} | {role: v} |
\* {isBlocked: v} | {isVisible: v}
Matches(doc, filter) ==
    CASE filter.field = "none" -> TRUE
      [] filter.field = "createdAt" -> doc.createdAt >= filter.gte
      [] filter.field = "role" -> doc.role = filter.eq
      [] filter.field = "isBlocked" -> doc.isBlocked = filter.eq
      [] filter.field = "isVisible" -> doc.isVisible = filter.eq

NoFilter == [field |-> "none"]

CreatedSince(t) == [field |-> "createdAt", gte |-> t]

\* Model.countDocuments(filter)
CountDocuments(coll, filter) ==
    Cardinality({i \in DOMAIN coll : Matches(coll[i], filter)})

\* Model.find(filter)
Find(coll, filter) == LET F(doc) == Matches(doc, filter) IN SelectSeq(coll, F)

\* new Date(t).toISOString().split('T')[0]: the UTC calendar day of t
IsoDay(t) == t \div DayTicks

\* d = new Date(); d.setHours(0, 0, 0, 0): midnight of the server's local day,
\* tz ticks east of UTC
LocalMidnight(t, tz) == (((t + tz) \div DayTicks) * DayTicks) - tz

----------------------------------------------------------------------------
(* Response envelopes and the error boundary *)

Success(data) == [status |-> 200, success |-> TRUE, data |-> data]

ServerError == [status |-> 500, success |-> FALSE, message |-> "Server error",
                error |-> "err.message"]

OverviewLabels ==
    {"ov_totalUsers", "ov_activeUsers", "ov_adminUsers", "ov_blockedUsers",
     "ov_totalChallenges", "ov_visibleChallenges", "ov_allUsers"}

TrafficLabels == {"tr_count30", "tr_count7", "tr_countToday", "tr_find"}

ReadLabels ==
    OverviewLabels \cup TrafficLabels
        \cup {"ue_find", "cs_find", "lb_find", "sb_users", "sb_challenges"}

InFlight == pc \in ReadLabels

\* a catch block that answers 500 and lets the handler run on
ReadFailsAndContinues ==
    /\ pc \in ReadLabels
    /\ reads' = Append(reads, "fail")
    /\ res' = Append(res, ServerError)
    /\ UNCHANGED <<users, challenges, now, pc, loc, interleaved>>

\* the catch block of every handler, entered when an awaited read rejects:
\* res.status(500).json({success: false, message, error}), and the handler ends
ReadFails ==
    /\ pc \in ReadLabels
    /\ reads' = Append(reads, "fail")
    /\ res' = Append(res, ServerError)
    /\ pc' = "done"
    /\ UNCHANGED <<users, challenges, now, loc, interleaved>>

----------------------------------------------------------------------------
(* Other requests and the clock *)

NewUser(name, t, pts, solved, blocked, role) ==
    [username |-> name, createdAt |-> t, points |-> pts,
     solvedChallenges |-> solved, isBlocked |-> blocked, role |-> role]

NewChallenge(title, cat, diff, pts, solvers, visible) ==
    [title |-> title, category |-> cat, difficulty |-> diff, points |-> pts,
     solvedBy |-> solvers, isVisible |-> visible]

Written(coll) == IF InFlight THEN interleaved \cup {coll} ELSE interleaved

\* a sign-up: createdAt is the creation moment
CreateUser ==
    /\ Len(users) < MaxUsers
    /\ users' = Append(users, NewUser(Len(users) + 1, now, 0, 0, FALSE, "user"))
    /\ interleaved' = Written("users")
    /\ UNCHANGED <<challenges, now, pc, loc, res, reads>>

\* an admin adds a challenge, visible or hidden
CreateChallenge ==
    /\ Len(challenges) < MaxChallenges
    /\ \E v \in BOOLEAN :
         challenges' = Append(challenges,
             NewChallenge(Len(challenges) + 1, "web", "easy", 1, 0, v))
    /\ interleaved' = Written("challenges")
    /\ UNCHANGED <<users, now, pc, loc, res, reads>>

\* an admin shows or hides a challenge
SetVisible ==
    /\ \E i \in DOMAIN challenges :
         challenges' = [challenges EXCEPT ![i].isVisible = ~challenges[i].isVisible]
    /\ interleaved' = Written("challenges")
    /\ UNCHANGED <<users, now, pc, loc, res, reads>>

Tick ==
    /\ now < Now0 + MaxTicks
    /\ now' = now + 1
    /\ UNCHANGED <<users, challenges, pc, loc, res, reads, interleaved>>

InitCommon ==
    /\ pc = "idle"
    /\ loc = <<>>
    /\ res = <<>>
    /\ reads = <<>>
    /\ interleaved = {}

\* one awaited read returning: the binding is made, the handler moves on
Await(label, next, binding) ==
    /\ pc = label
    /\ loc' = loc @@ binding
    /\ reads' = Append(reads, "ok")
    /\ pc' = next

----------------------------------------------------------------------------
(* GET /overview *)

\* allUsers.reduce((sum, user) => sum + (user.solvedChallenges?.length || 0), 0)
TotalSubmissions(allUsers) == SumSeq(SolvedLens(allUsers))

\* allUsers.reduce((sum, user) => sum + (user.points || 0), 0)
TotalPoints(allUsers) == SumSeq([i \in DOMAIN allUsers |-> OrZero(allUsers[i].points)])

AvgPointsPerUserUnguarded(totalPoints, totalUsers) ==
    ToFixed2(totalPoints, totalUsers)

\* totalUsers > 0 ? (totalPoints / totalUsers).toFixed(2) : 0
AvgPointsPerUser(totalPoints, totalUsers) ==
    IF totalUsers > 0 THEN ToFixed2(totalPoints, totalUsers) ELSE 0

HiddenSwapped(totalChallenges, visibleChallenges) ==
    visibleChallenges - totalChallenges

\* hidden: totalChallenges - visibleChallenges
Hidden(totalChallenges, visibleChallenges) == totalChallenges - visibleChallenges

OverviewStart ==
    /\ pc = "idle"
    /\ loc' = [route |-> "overview"]
    /\ pc' = "ov_totalUsers"
    /\ UNCHANGED <<users, challenges, now, res, reads, interleaved>>

OverviewCountUsers ==
    /\ Await("ov_totalUsers", "ov_activeUsers",
             [totalUsers |-> CountDocuments(users, NoFilter)])
    /\ UNCHANGED <<users, challenges, now, res, interleaved>>

OverviewCountActive ==
    /\ Await("ov_activeUsers", "ov_adminUsers",
             [activeUsers |-> CountDocuments(users, CreatedSince(now - ThirtyDays))])
    /\ UNCHANGED <<users, challenges, now, res, interleaved>>

OverviewCountAdmins ==
    /\ Await("ov_adminUsers", "ov_blockedUsers",
             [adminUsers |-> CountDocuments(users, [field |-> "role", eq |-> "admin"])])
    /\ UNCHANGED <<users, challenges, now, res, interleaved>>

OverviewCountBlocked ==
    /\ Await("ov_blockedUsers", "ov_totalChallenges",
             [blockedUsers |-> CountDocuments(users, [field |-> "isBlocked", eq |-> TRUE])])
    /\ UNCHANGED <<users, challenges, now, res, interleaved>>

OverviewCountChallenges ==
    /\ Await("ov_totalChallenges", "ov_visibleChallenges",
             [totalChallenges |-> CountDocuments(challenges, NoFilter)])
    /\ UNCHANGED <<users, challenges, now, res, interleaved>>

OverviewCountVisible ==
    /\ Await("ov_visibleChallenges", "ov_allUsers",
             [visibleChallenges |->
                CountDocuments(challenges, [field |-> "isVisible", eq |-> TRUE])])
    /\ UNCHANGED <<users, challenges, now, res, interleaved>>

OverviewFind ==
    /\ LET allUsers == Find(users, NoFilter)
           totalSubmissions == TotalSubmissions(allUsers)
           totalPoints == TotalPoints(allUsers)
           avgPointsPerUser == AvgPointsPerUser(totalPoints, loc.totalUsers)
       IN /\ Await("ov_allUsers", "done", [allUsers |-> allUsers])
          /\ res' = Append(res, Success(
                [users |-> [total |-> loc.totalUsers,
                            active |-> loc.activeUsers,
                            admins |-> loc.adminUsers,
                            blocked |-> loc.blockedUsers],
                 challenges |-> [total |-> loc.totalChallenges,
                                 visible |-> loc.visibleChallenges,
                                 hidden |-> Hidden(loc.totalChallenges,
                                                   loc.visibleChallenges)],
                 submissions |-> [total |-> totalSubmissions,
                                  avgPerUser |-> avgPointsPerUser,
                                  totalPoints |-> totalPoints]]))
    /\ UNCHANGED <<users, challenges, now, interleaved>>

OverviewUsers ==
    {NewUser(0, t, k[1], k[2], k[3], k[4]) :
        t \in {0, Now0},
        k \in {<<0, 0, FALSE, "user">>, <<1, 1, FALSE, "user">>,
               <<2, Missing, TRUE, "admin">>}}

InitOverview ==
    /\ InitCommon
    /\ now = Now0
    /\ \E us \in SeqsUpTo(OverviewUsers, MaxUsers - 1) :
         users = [i \in DOMAIN us |-> [us[i] EXCEPT !.username = i]]
    /\ \E vs \in SeqsUpTo(BOOLEAN, MaxChallenges - 1) :
         challenges = [i \in DOMAIN vs |-> NewChallenge(i, "web", "easy", 1, 0, vs[i])]

NextOverview ==
    \/ OverviewStart
    \/ OverviewCountUsers
    \/ OverviewCountActive
    \/ OverviewCountAdmins
    \/ OverviewCountBlocked
    \/ OverviewCountChallenges
    \/ OverviewCountVisible
    \/ OverviewFind
    \/ ReadFails
    \/ CreateUser
    \/ CreateChallenge
    \/ SetVisible

SpecOverview == InitOverview /\ [][NextOverview]_vars

----------------------------------------------------------------------------
(* GET /traffic *)

RECURSIVE UsersPerDayOverwrite(_, _)
UsersPerDayOverwrite(found, acc) ==
    IF found = <<>> THEN acc
    ELSE LET day == IsoDay(Head(found).createdAt)
         IN UsersPerDayOverwrite(Tail(found),
                [d \in DOMAIN acc \cup {day} |-> IF d = day THEN 1 ELSE acc[d]])

\* users.forEach(user => usersPerDay[day] = (usersPerDay[day] || 0) + 1)
RECURSIVE UsersPerDay(_, _)
UsersPerDay(found, acc) ==
    IF found = <<>> THEN acc
    ELSE LET day == IsoDay(Head(found).createdAt)
             old == IF day \in DOMAIN acc THEN acc[day] ELSE 0
         IN UsersPerDay(Tail(found),
                        [d \in DOMAIN acc \cup {day} |->
                            IF d = day THEN old + 1 ELSE acc[d]])

TrafficStart ==
    /\ pc = "idle"
    /\ \E tz \in 0..(DayTicks - 1) :
         loc' = [route |-> "traffic",
                 thirtyDaysAgo |-> now - ThirtyDays,
                 sevenDaysAgo |-> now - SevenDays,
                 today |-> LocalMidnight(now, tz)]
    /\ pc' = "tr_count30"
    /\ UNCHANGED <<users, challenges, now, res, reads, interleaved>>

TrafficCount30 ==
    /\ Await("tr_count30", "tr_count7",
             [totalUsersLast30 |-> CountDocuments(users, CreatedSince(loc.thirtyDaysAgo))])
    /\ UNCHANGED <<users, challenges, now, res, interleaved>>

TrafficCount7 ==
    /\ Await("tr_count7", "tr_countToday",
             [totalUsersLast7 |-> CountDocuments(users, CreatedSince(loc.sevenDaysAgo))])
    /\ UNCHANGED <<users, challenges, now, res, interleaved>>

TrafficCountToday ==
    /\ Await("tr_countToday", "tr_find",
             [totalUsersToday |-> CountDocuments(users, CreatedSince(loc.today))])
    /\ UNCHANGED <<users, challenges, now, res, interleaved>>

TrafficFind ==
    /\ LET found == Find(users, CreatedSince(loc.thirtyDaysAgo))
           usersPerDay == UsersPerDay(found, <<>>)
       IN /\ Await("tr_find", "done", [users |-> found])
          /\ res' = Append(res, Success([last30Days |-> loc.totalUsersLast30,
                                         last7Days |-> loc.totalUsersLast7,
                                         today |-> loc.totalUsersToday,
                                         dailyBreakdown |-> usersPerDay]))
    /\ UNCHANGED <<users, challenges, now, interleaved>>

TrafficTimes == {0, Now0 - ThirtyDays, Now0 - SevenDays, Now0}

InitTraffic ==
    /\ InitCommon
    /\ now = Now0
    /\ challenges = <<>>
    /\ \E ts \in SeqsUpTo(TrafficTimes, MaxUsers - 1) :
         users = [i \in DOMAIN ts |-> NewUser(i, ts[i], 0, 0, FALSE, "user")]

NextTraffic ==
    \/ TrafficStart
    \/ TrafficCount30
    \/ TrafficCount7
    \/ TrafficCountToday
    \/ TrafficFind
    \/ ReadFails
    \/ CreateUser
    \/ Tick

SpecTraffic == InitTraffic /\ [][NextTraffic]_vars

----------------------------------------------------------------------------
(* GET /user-engagement *)

\* users.map(user => ({...})), evaluated at time t
EngagementDatum(u, t) ==
    [username |-> u.username,
     joinedDate |-> u.createdAt,
     challengesSolved |-> SolvedLen(u),
     points |-> OrZero(u.points),
     isActive |-> ~u.isBlocked,
     daysActive |-> (t - u.createdAt) \div DayTicks]

IsMediumOffByOne(u) ==
    u.challengesSolved > MediumSolved /\ u.challengesSolved < HighSolved /\ u.isActive

IsHigh(u) == u.challengesSolved >= HighSolved /\ u.isActive

IsMedium(u) ==
    u.challengesSolved >= MediumSolved /\ u.challengesSolved < HighSolved /\ u.isActive

IsLow(u) == u.challengesSolved < MediumSolved /\ u.isActive

IsInactive(u) == ~u.isActive

Engagement(engagementData) ==
    [highEngagement |-> Len(SelectSeq(engagementData, IsHigh)),
     mediumEngagement |-> Len(SelectSeq(engagementData, IsMedium)),
     lowEngagement |-> Len(SelectSeq(engagementData, IsLow)),
     inactive |-> Len(SelectSeq(engagementData, IsInactive))]

EngagementStart ==
    /\ pc = "idle"
    /\ loc' = [route |-> "user-engagement"]
    /\ pc' = "ue_find"
    /\ UNCHANGED <<users, challenges, now, res, reads, interleaved>>

EngagementFind ==
    /\ LET all == Find(users, NoFilter)
           found == StableSort(all, [i \in DOMAIN all |-> -all[i].createdAt])
           engagementData == [i \in DOMAIN found |-> EngagementDatum(found[i], now)]
       IN /\ Await("ue_find", "done", [users |-> found])
          /\ res' = Append(res, Success([summary |-> Engagement(engagementData),
                                         users |-> engagementData]))
    /\ UNCHANGED <<users, challenges, now, interleaved>>

EngagementSolved == {Missing, 0, MediumSolved - 1, MediumSolved,
                     HighSolved - 1, HighSolved}

InitEngagement ==
    /\ InitCommon
    /\ now = Now0
    /\ challenges = <<>>
    /\ \E us \in SeqsUpTo(EngagementSolved \X BOOLEAN, MaxEngagementUsers) :
         users = [i \in DOMAIN us |->
                    NewUser(i, i, us[i][1] + 1, us[i][1], us[i][2], "user")]

NextEngagement ==
    \/ EngagementStart
    \/ EngagementFind
    \/ ReadFails

SpecEngagement == InitEngagement /\ [][NextEngagement]_vars

----------------------------------------------------------------------------
(* GET /challenge-stats *)

\* stats.byCategory and stats.byDifficulty are object literals ({}): a key is
\* looked up on the object and then on Object.prototype, whose properties
\* (functions, or Object.prototype itself for __proto__) are truthy
ObjectPrototypeKeys ==
    {"constructor", "__proto__", "toString", "toLocaleString", "valueOf",
     "hasOwnProperty", "isPrototypeOf", "propertyIsEnumerable"}

\* !obj[key]
Falsy(obj, key) == key \notin DOMAIN obj /\ key \notin ObjectPrototypeKeys

\* if (!obj[key]) obj[key] = init
Ensure(obj, key, init) ==
    IF Falsy(obj, key)
    THEN [k \in DOMAIN obj \cup {key} |-> IF k = key THEN init ELSE obj[k]]
    ELSE obj

\* obj[key].field op= ...: obj[key] becomes entry when it is obj's own; when
\* it is inherited the update lands on the inherited object and obj gets no
\* property of its own
Update(obj, key, entry) ==
    IF key \in DOMAIN obj THEN [obj EXCEPT ![key] = entry] ELSE obj

RECURSIVE ByCategory(_, _)
ByCategory(chs, acc) ==
    IF chs = <<>> THEN acc
    ELSE LET c == Head(chs)
             o == Ensure(acc, c.category, [count |-> 0, solved |-> 0])
             e == o[c.category]
         IN ByCategory(Tail(chs),
                Update(o, c.category,
                       [count |-> e.count + 1, solved |-> e.solved + SolvesOf(c)]))

RECURSIVE ByDifficulty(_, _)
ByDifficulty(chs, acc) ==
    IF chs = <<>> THEN acc
    ELSE LET c == Head(chs)
             o == Ensure(acc, c.difficulty, [count |-> 0, avgPoints |-> 0])
             e == o[c.difficulty]
         IN ByDifficulty(Tail(chs),
                Update(o, c.difficulty,
                       [count |-> e.count + 1, avgPoints |-> e.avgPoints + c.points]))

\* challenge.solvedBy && challenge.solvedBy.length > 0; solver lists are
\* carried by their length
HasSolvers(c) == c.solvedBy # Missing /\ c.solvedBy > 0

SolvedChallenges(chs) ==
    LET solved == SelectSeq(chs, HasSolvers)
    IN [i \in DOMAIN solved |->
          [title |-> solved[i].title, category |-> solved[i].category,
           difficulty |-> solved[i].difficulty, points |-> solved[i].points,
           solvedBy |-> solved[i].solvedBy]]

\* .slice(0, 5).map(c => ({title, solves, points}))
SolveRows(sorted) ==
    LET top == Take(sorted, TopCount)
    IN [i \in DOMAIN top |->
          [title |-> top[i].title, solves |-> SolvesOf(top[i]), points |-> top[i].points]]

\* challenges.sort((a, b) => solves(b) - solves(a)): in place
SortMostSolved(chs) == StableSort(chs, [i \in DOMAIN chs |-> -SolvesOf(chs[i])])

Reverse(s) == [i \in DOMAIN s |-> s[Len(s) + 1 - i]]

SortLeastSolvedByReversal(chs) == Reverse(chs)

\* challenges.sort((a, b) => solves(a) - solves(b)): in place, on the array as
\* the first sort left it
SortLeastSolved(chs) == StableSort(chs, SolvesOfAll(chs))

StatsStart ==
    /\ pc = "idle"
    /\ loc' = [route |-> "challenge-stats"]
    /\ pc' = "cs_find"
    /\ UNCHANGED <<users, challenges, now, res, reads, interleaved>>

StatsFind ==
    /\ LET fetched == Find(challenges, NoFilter)
           sortedDesc == SortMostSolved(fetched)
           sortedAsc == SortLeastSolved(sortedDesc)
       IN /\ Await("cs_find", "done", [challenges |-> sortedAsc])
          /\ res' = Append(res, Success(
                [byCategory |-> ByCategory(fetched, <<>>),
                 byDifficulty |-> ByDifficulty(fetched, <<>>),
                 topChallenges |-> SolveRows(sortedDesc),
                 leastSolved |-> SolveRows(sortedAsc),
                 solvedChallenges |-> SolvedChallenges(fetched)]))
    /\ UNCHANGED <<users, challenges, now, interleaved>>

Categories == {"web", "crypto", "constructor"}

InitChallengeStats ==
    /\ InitCommon
    /\ now = Now0
    /\ users = <<>>
    /\ \/ \E cs \in SeqsUpTo(Categories \X {"easy", "hard"} \X {Missing, 0, 2},
                             MaxCategoryChallenges) :
            challenges = [i \in DOMAIN cs |->
                NewChallenge(i, cs[i][1], cs[i][2], 10 * i, cs[i][3], TRUE)]
       \/ \E ss \in SeqsUpTo({Missing, 0, 1, 2}, MaxOrderChallenges) :
            challenges = [i \in DOMAIN ss |->
                NewChallenge(i, "web", "easy", 10 * i, ss[i], TRUE)]

NextChallengeStats ==
    \/ StatsStart
    \/ StatsFind
    \/ ReadFails

SpecChallengeStats == InitChallengeStats /\ [][NextChallengeStats]_vars

----------------------------------------------------------------------------
(* GET /leaderboard-stats *)

\* User.find().sort({points: -1}).limit(10)
TopUsers(coll) ==
    LET all == Find(coll, NoFilter)
    IN Take(StableSort(all, [i \in DOMAIN all |-> -all[i].points]), LeaderLimit)

TopUsersDataZeroBased(topUsers) ==
    [i \in DOMAIN topUsers |->
        [rank |-> i - 1, username |-> topUsers[i].username,
         points |-> topUsers[i].points,
         challengesSolved |-> SolvedLen(topUsers[i])]]

\* topUsers.map((user, index) => ({rank: index + 1, ...})); index is 0-based,
\* the sequence position i is index + 1
TopUsersData(topUsers) ==
    [i \in DOMAIN topUsers |->
        [rank |-> (i - 1) + 1, username |-> topUsers[i].username,
         points |-> topUsers[i].points,
         challengesSolved |-> SolvedLen(topUsers[i])]]

LeaderStart ==
    /\ pc = "idle"
    /\ loc' = [route |-> "leaderboard-stats"]
    /\ pc' = "lb_find"
    /\ UNCHANGED <<users, challenges, now, res, reads, interleaved>>

LeaderFind ==
    /\ LET topUsers == TopUsers(users)
       IN /\ Await("lb_find", "done", [topUsers |-> topUsers])
          /\ res' = Append(res, Success(TopUsersData(topUsers)))
    /\ UNCHANGED <<users, challenges, now, interleaved>>

InitLeaderboard ==
    /\ InitCommon
    /\ now = Now0
    /\ challenges = <<>>
    /\ \E ps \in SeqsUpTo({0, 1}, MaxLeaderUsers) :
         users = [i \in DOMAIN ps |-> NewUser(i, 0, ps[i], ps[i], FALSE, "user")]

NextLeaderboard ==
    \/ LeaderStart
    \/ LeaderFind
    \/ ReadFails

SpecLeaderboard == InitLeaderboard /\ [][NextLeaderboard]_vars

----------------------------------------------------------------------------
(* GET /submissions *)

EstimatedFailedDivFirst(totalSubmissions) == (totalSubmissions \div 10) * 3

\* Math.floor(totalSubmissions * 0.3): on doubles this is floor(3n / 10) for
\* every count n below 2^53 / 3 (0.3 is within 2^-54 relative of 3/10)
EstimatedFailed(totalSubmissions) == (3 * totalSubmissions) \div 10

\* estimatedTotalAttempts > 0
\*   ? ((totalSubmissions / estimatedTotalAttempts) * 100).toFixed(2) : 0
SuccessRate(totalSubmissions, estimatedTotalAttempts) ==
    IF estimatedTotalAttempts > 0
    THEN ToFixed2(100 * totalSubmissions, estimatedTotalAttempts)
    ELSE 0

\* (100 - successRate).toFixed(2), successRate in hundredths
FailureRate(successRate) == ToFixed2(10000 - successRate, 100)

SubmissionsByUser(found) ==
    LET Solved(u) == SolvedLen(u) > 0
        kept == SelectSeq(found, Solved)
        rows == [i \in DOMAIN kept |->
                   [username |-> kept[i].username, submissions |-> SolvedLen(kept[i]),
                    points |-> kept[i].points]]
    IN StableSort(rows, [i \in DOMAIN rows |-> -rows[i].submissions])

SubmissionsByChallenge(found) ==
    LET Solved(c) == SolvesOf(c) > 0
        kept == SelectSeq(found, Solved)
        rows == [i \in DOMAIN kept |->
                   [title |-> kept[i].title, category |-> kept[i].category,
                    difficulty |-> kept[i].difficulty, points |-> kept[i].points,
                    submissions |-> SolvesOf(kept[i])]]
    IN StableSort(rows, [i \in DOMAIN rows |-> -rows[i].submissions])

SubmissionsStart ==
    /\ pc = "idle"
    /\ loc' = [route |-> "submissions"]
    /\ pc' = "sb_users"
    /\ UNCHANGED <<users, challenges, now, res, reads, interleaved>>

SubmissionsFindUsers ==
    /\ Await("sb_users", "sb_challenges", [users |-> Find(users, NoFilter)])
    /\ UNCHANGED <<users, challenges, now, res, interleaved>>

SubmissionsFindChallenges ==
    /\ LET fetched == Find(challenges, NoFilter)
           totalSubmissions == SumSeq(SolvedLens(loc.users))
           successfulSubmissions == totalSubmissions
           estimatedFailedSubmissions == EstimatedFailed(totalSubmissions)
           estimatedTotalAttempts == totalSubmissions + estimatedFailedSubmissions
           successRate == SuccessRate(totalSubmissions, estimatedTotalAttempts)
           failureRate == FailureRate(successRate)
       IN /\ Await("sb_challenges", "done", [challenges |-> fetched])
          /\ res' = Append(res, Success(
                [overview |->
                    [totalSubmissions |-> totalSubmissions,
                     successfulSubmissions |-> successfulSubmissions,
                     estimatedFailedSubmissions |-> estimatedFailedSubmissions,
                     estimatedTotalAttempts |-> estimatedTotalAttempts,
                     successRate |-> successRate,
                     failureRate |-> failureRate],
                 submissionsByUser |-> SubmissionsByUser(loc.users),
                 submissionsByChallenge |-> SubmissionsByChallenge(fetched)]))
    /\ UNCHANGED <<users, challenges, now, interleaved>>

InitSubmissions ==
    /\ InitCommon
    /\ now = Now0
    /\ \E ss \in SeqsUpTo({Missing} \cup (0..MaxSolved), MaxSubmissionUsers) :
         users = [i \in DOMAIN ss |-> NewUser(i, 0, 10 * OrZero(ss[i]), ss[i], FALSE, "user")]
    /\ \E cs \in SeqsUpTo({0, 2}, 1) :
         challenges = [i \in DOMAIN cs |-> NewChallenge(i, "web", "easy", 10, cs[i], TRUE)]

NextSubmissions ==
    \/ SubmissionsStart
    \/ SubmissionsFindUsers
    \/ SubmissionsFindChallenges
    \/ ReadFails

SpecSubmissions == InitSubmissions /\ [][NextSubmissions]_vars

----------------------------------------------------------------------------
(* The router: one request to any of the six routes *)

\* the awaited data-store reads of each handler
NumReads(route) ==
    CASE route = "overview" -> 7
      [] route = "user-engagement" -> 1
      [] route = "challenge-stats" -> 1
      [] route = "traffic" -> 4
      [] route = "leaderboard-stats" -> 1
      [] route = "submissions" -> 2

Init ==
    /\ InitCommon
    /\ now = Now0
    /\ \E us \in SeqsUpTo(OverviewUsers, MaxUsers - 2) :
         users = [i \in DOMAIN us |-> [us[i] EXCEPT !.username = i]]
    /\ \E vs \in SeqsUpTo(BOOLEAN, MaxChallenges - 1) :
         challenges = [i \in DOMAIN vs |-> NewChallenge(i, "web", "easy", 1, 0, vs[i])]

Next ==
    \/ OverviewStart
    \/ OverviewCountUsers
    \/ OverviewCountActive
    \/ OverviewCountAdmins
    \/ OverviewCountBlocked
    \/ OverviewCountChallenges
    \/ OverviewCountVisible
    \/ OverviewFind
    \/ EngagementStart
    \/ EngagementFind
    \/ StatsStart
    \/ StatsFind
    \/ TrafficStart
    \/ TrafficCount30
    \/ TrafficCount7
    \/ TrafficCountToday
    \/ TrafficFind
    \/ LeaderStart
    \/ LeaderFind
    \/ SubmissionsStart
    \/ SubmissionsFindUsers
    \/ SubmissionsFindChallenges
    \/ ReadFails
    \/ CreateUser
    \/ CreateChallenge

Spec == Init /\ [][Next]_vars

----------------------------------------------------------------------------
(* Properties of GET /overview *)

Responded(route) ==
    /\ pc = "done"
    /\ Len(res) = 1
    /\ res[1].success
    /\ loc.route = route

OverviewData == res[1].data

\* C6: when the counted users are 0, avgPerUser is 0 (a number, not NaN);
\* with an empty store every count is 0; with users counted, avgPerUser is
\* totalPoints / totalUsers to the nearest hundredth.
C6_AvgPerUser ==
    Responded("overview") =>
        LET d == OverviewData
            n == d.users.total
            avg == d.submissions.avgPerUser
            err == (avg * n) - (100 * d.submissions.totalPoints)
        IN /\ avg # NaN
           /\ (n = 0) => (avg = 0)
           /\ (users = <<>> /\ challenges = <<>>) =>
                 /\ d.users = [total |-> 0, active |-> 0, admins |-> 0, blocked |-> 0]
                 /\ d.challenges = [total |-> 0, visible |-> 0, hidden |-> 0]
                 /\ d.submissions = [total |-> 0, avgPerUser |-> 0, totalPoints |-> 0]
           /\ (n > 0) => (2 * err <= n /\ -(2 * err) <= n)

C6_Witness ==
    /\ Responded("overview")
    /\ OverviewData.users.total = 0
    /\ OverviewData.submissions.avgPerUser = 0
    /\ users = <<>>

C6_WitnessRounded ==
    /\ Responded("overview")
    /\ OverviewData.users.total = 3
    /\ OverviewData.submissions.totalPoints = 2
    /\ OverviewData.submissions.avgPerUser = 67

----------------------------------------------------------------------------
(* Properties of GET /traffic *)

TrafficData == res[1].data

BreakdownSum == SumFun(TrafficData.dailyBreakdown, DOMAIN TrafficData.dailyBreakdown)

\* every key is the UTC day of a stored user created at or after the cutoff,
\* and its value the number of such users the find returned
BreakdownKeysInWindow ==
    \A k \in DOMAIN TrafficData.dailyBreakdown :
        /\ \E i \in DOMAIN users :
              /\ users[i].createdAt >= loc.thirtyDaysAgo
              /\ IsoDay(users[i].createdAt) = k
        /\ TrafficData.dailyBreakdown[k] =
              Cardinality({i \in DOMAIN loc.users : IsoDay(loc.users[i].createdAt) = k})
        /\ TrafficData.dailyBreakdown[k] >= 1

\* C3 as stated: the values of dailyBreakdown add up to last30Days of the same
\* response, under every interleaving of sign-ups with the four reads.
C3_BreakdownSumIsLast30 ==
    Responded("traffic") =>
        /\ BreakdownSum = TrafficData.last30Days
        /\ BreakdownKeysInWindow

\* C3 amended: the values add up to the number of users the fourth read (find)
\* returned, which is at least last30Days and equal to it when no sign-up
\* happened while the request was in flight; every key is the day of a user
\* created at or after the cutoff.
C3_BreakdownSumIsFindCount ==
    Responded("traffic") =>
        /\ BreakdownSum = Len(loc.users)
        /\ BreakdownSum >= TrafficData.last30Days
        /\ ("users" \notin interleaved) => (BreakdownSum = TrafficData.last30Days)
        /\ BreakdownKeysInWindow

C3_Witness ==
    /\ Responded("traffic")
    /\ "users" \in interleaved
    /\ TrafficData.last30Days = 1
    /\ BreakdownSum = 3
    /\ Cardinality(DOMAIN TrafficData.dailyBreakdown) = 2

\* C9 as stated: today <= last7Days <= last30Days under every interleaving of
\* sign-ups with the three count queries.
C9_CountsNested ==
    Responded("traffic") =>
        /\ TrafficData.today <= TrafficData.last7Days
        /\ TrafficData.last7Days <= TrafficData.last30Days

\* C9 amended: the cutoffs are nested (thirtyDaysAgo <= sevenDaysAgo <= today),
\* and today <= last7Days <= last30Days whenever no sign-up happened while the
\* request was in flight.
C9_CountsNestedQuiescent ==
    Responded("traffic") =>
        /\ loc.thirtyDaysAgo <= loc.sevenDaysAgo
        /\ loc.sevenDaysAgo <= loc.today
        /\ ("users" \notin interleaved) =>
              /\ TrafficData.today <= TrafficData.last7Days
              /\ TrafficData.last7Days <= TrafficData.last30Days

C9_Witness ==
    /\ Responded("traffic")
    /\ "users" \notin interleaved
    /\ 0 < TrafficData.today
    /\ TrafficData.today < TrafficData.last7Days
    /\ TrafficData.last7Days < TrafficData.last30Days

----------------------------------------------------------------------------
(* Properties of GET /user-engagement *)

EngagementSummary == res[1].data.summary

StoredWhere(F(_)) == Cardinality({i \in DOMAIN users : F(users[i])})

\* C1: the four tier counts add up to the number of users in the returned
\* list (every stored user); each unblocked user is counted in exactly one of
\* high (>= 5 solved), medium (2..4) and low (< 2); each blocked user only in
\* inactive.
C1_TiersPartitionUsers ==
    Responded("user-engagement") =>
        LET e == EngagementSummary
            High(u) == ~u.isBlocked /\ SolvedLen(u) >= 5
            Medium(u) == ~u.isBlocked /\ SolvedLen(u) >= 2 /\ SolvedLen(u) < 5
            Low(u) == ~u.isBlocked /\ SolvedLen(u) < 2
            Blocked(u) == u.isBlocked
        IN /\ Len(res[1].data.users) = Len(users)
           /\ e.highEngagement + e.mediumEngagement + e.lowEngagement + e.inactive
                = Len(res[1].data.users)
           /\ e.highEngagement = StoredWhere(High)
           /\ e.mediumEngagement = StoredWhere(Medium)
           /\ e.lowEngagement = StoredWhere(Low)
           /\ e.inactive = StoredWhere(Blocked)
           /\ \A i \in DOMAIN users :
                Cardinality({t \in {"high", "medium", "low", "inactive"} :
                    \/ t = "high" /\ High(users[i])
                    \/ t = "medium" /\ Medium(users[i])
                    \/ t = "low" /\ Low(users[i])
                    \/ t = "inactive" /\ Blocked(users[i])}) = 1

C1_Witness ==
    /\ Responded("user-engagement")
    /\ EngagementSummary.highEngagement = 1
    /\ EngagementSummary.mediumEngagement = 1
    /\ EngagementSummary.inactive = 1
    /\ \E i \in DOMAIN users : users[i].isBlocked /\ SolvedLen(users[i]) >= 5
    /\ \E i \in DOMAIN users : ~users[i].isBlocked /\ SolvedLen(users[i]) = 2

----------------------------------------------------------------------------
(* Properties of GET /challenge-stats *)

StatsData == res[1].data

\* C2: the counts of byCategory add up to the number of challenges fetched and
\* its solved fields to the total of the challenges' solver counts, whatever
\* the categories are.
C2_ByCategoryTotals ==
    Responded("challenge-stats") =>
        LET b == StatsData.byCategory
        IN /\ SumFun([k \in DOMAIN b |-> b[k].count], DOMAIN b) = Len(challenges)
           /\ SumFun([k \in DOMAIN b |-> b[k].solved], DOMAIN b)
                = SumSeq(SolvesOfAll(challenges))

\* the same totals, for collections whose categories name no property of
\* Object.prototype
C2_ByCategoryTotalsOrdinary ==
    (\A i \in DOMAIN challenges : challenges[i].category \notin ObjectPrototypeKeys)
        => C2_ByCategoryTotals

\* position of the challenge titled t in the collection as fetched
\* (titles are the insertion positions)
Fetched(t) == challenges[t]

\* rows is the first min(5, n) of the fetched challenges ordered by Key
\* ascending, equal keys in fetched order
IsStablePrefix(rows, Key(_)) ==
    LET Before(a, b) == Key(Fetched(a)) < Key(Fetched(b))
                          \/ (Key(Fetched(a)) = Key(Fetched(b)) /\ a < b)
        titles == {rows[i].title : i \in DOMAIN rows}
    IN /\ Len(rows) = (IF Len(challenges) < 5 THEN Len(challenges) ELSE 5)
       /\ \A i \in DOMAIN rows :
            /\ rows[i].title \in DOMAIN challenges
            /\ rows[i].solves = SolvesOf(Fetched(rows[i].title))
            /\ rows[i].points = Fetched(rows[i].title).points
       /\ \A i, j \in DOMAIN rows : i < j => Before(rows[i].title, rows[j].title)
       /\ \A t \in DOMAIN challenges \ titles :
            \A i \in DOMAIN rows : Before(rows[i].title, t)

\* C8: topChallenges is the first min(5, n) by solve count descending and
\* leastSolved the first min(5, n) by solve count ascending, ties in the order
\* of the collection as fetched.
C8_TopAndLeastStable ==
    Responded("challenge-stats") =>
        LET Desc(c) == -SolvesOf(c)
            Asc(c) == SolvesOf(c)
        IN /\ IsStablePrefix(StatsData.topChallenges, Desc)
           /\ IsStablePrefix(StatsData.leastSolved, Asc)

C8_Witness ==
    /\ Responded("challenge-stats")
    /\ Len(challenges) = 6
    /\ SolvesOfAll(challenges) = <<1, 0, 2, 1, 0, 1>>
    /\ [i \in 1..5 |-> StatsData.topChallenges[i].title] = <<3, 1, 4, 6, 2>>
    /\ [i \in 1..5 |-> StatsData.leastSolved[i].title] = <<2, 5, 1, 4, 6>>

----------------------------------------------------------------------------
(* Properties of GET /leaderboard-stats *)

\* C7: the output has the length of the sequence the store returned (at most
\* 10, and min(10, users)), keeps its order, ranks the i-th entry i (1-based),
\* and its points never increase.
C7_LeaderboardRanks ==
    Responded("leaderboard-stats") =>
        LET out == res[1].data
        IN /\ Len(out) = Len(loc.topUsers)
           /\ Len(out) <= 10
           /\ Len(out) = (IF Len(users) < 10 THEN Len(users) ELSE 10)
           /\ \A i \in DOMAIN out :
                /\ out[i].rank = i
                /\ out[i].username = loc.topUsers[i].username
                /\ out[i].points = users[out[i].username].points
           /\ \A i, j \in DOMAIN out : i < j => out[i].points >= out[j].points
           /\ \A i, j \in DOMAIN out : i # j => out[i].username # out[j].username
           /\ \A k \in DOMAIN users :
                (\A i \in DOMAIN out : out[i].username # k) =>
                    users[k].points <= out[Len(out)].points

C7_Witness ==
    /\ Responded("leaderboard-stats")
    /\ Len(users) = 11
    /\ Len(res[1].data) = 10
    /\ res[1].data[1].points = 1
    /\ res[1].data[10].points = 0
    /\ res[1].data[10].rank = 10

----------------------------------------------------------------------------
(* Properties of GET /submissions *)

SubmissionsOverview == res[1].data.overview

\* C4: with total the sum of the users' solved-set sizes, estimatedFailed is
\* floor(3 total / 10), estimatedTotalAttempts is total + estimatedFailed,
\* successRate is 100 total / attempts to the nearest hundredth (0 when
\* attempts is 0) and successRate + failureRate is 100 when total > 0; a total
\* of 10 gives 3, 13, 76.92 and 23.08.
C4_EstimatedRates ==
    Responded("submissions") =>
        LET o == SubmissionsOverview
            total == SumSeq(SolvedLens(users))
            failed == o.estimatedFailedSubmissions
            attempts == o.estimatedTotalAttempts
            err == (o.successRate * attempts) - (10000 * total)
        IN /\ o.totalSubmissions = total
           /\ 10 * failed <= 3 * total
           /\ 3 * total < 10 * (failed + 1)
           /\ attempts = total + failed
           /\ (attempts = 0) => (o.successRate = 0)
           /\ (attempts > 0) => (2 * err <= attempts /\ -(2 * err) <= attempts)
           /\ (total > 0) => (o.successRate + o.failureRate = 10000)
           /\ (total = 10) =>
                /\ failed = 3
                /\ attempts = 13
                /\ o.successRate = 7692
                /\ o.failureRate = 2308

C4_Witness ==
    /\ Responded("submissions")
    /\ SubmissionsOverview.totalSubmissions = 10
    /\ SubmissionsOverview.successRate = 7692

C4_WitnessTie ==
    /\ Responded("submissions")
    /\ SubmissionsOverview.totalSubmissions = 25
    /\ SubmissionsOverview.estimatedTotalAttempts = 32
    /\ SubmissionsOverview.successRate = 7813
    /\ SubmissionsOverview.failureRate = 2187

----------------------------------------------------------------------------
(* Properties of the error boundary, all six routes *)

\* the fields of a route's complete data
DataComplete(route, data) ==
    CASE route = "overview" ->
            /\ DOMAIN data = {"users", "challenges", "submissions"}
            /\ DOMAIN data.users = {"total", "active", "admins", "blocked"}
            /\ DOMAIN data.challenges = {"total", "visible", "hidden"}
            /\ DOMAIN data.submissions = {"total", "avgPerUser", "totalPoints"}
      [] route = "user-engagement" ->
            /\ DOMAIN data = {"summary", "users"}
            /\ DOMAIN data.summary = {"highEngagement", "mediumEngagement",
                                      "lowEngagement", "inactive"}
            /\ Len(data.users) = Len(loc.users)
      [] route = "challenge-stats" ->
            DOMAIN data = {"byCategory", "byDifficulty", "topChallenges",
                           "leastSolved", "solvedChallenges"}
      [] route = "traffic" ->
            DOMAIN data = {"last30Days", "last7Days", "today", "dailyBreakdown"}
      [] route = "leaderboard-stats" ->
            /\ Len(data) = Len(loc.topUsers)
            /\ \A i \in DOMAIN data :
                 DOMAIN data[i] = {"rank", "username", "points", "challengesSolved"}
      [] route = "submissions" ->
            /\ DOMAIN data = {"overview", "submissionsByUser", "submissionsByChallenge"}
            /\ DOMAIN data.overview =
                 {"totalSubmissions", "successfulSubmissions",
                  "estimatedFailedSubmissions", "estimatedTotalAttempts",
                  "successRate", "failureRate"}

AllOk(n) == [i \in 1..n |-> "ok"]

\* C5: a request gets exactly one response, written when the handler ends:
\* either the success envelope with the route's complete data after all of the
\* route's reads succeeded, or, after a read failed, the 500 error envelope
\* without data; the failed read is the last read issued.
C5_OneResponseAllOrNothing ==
    /\ Len(res) <= 1
    /\ (pc = "done") <=> (Len(res) = 1)
    /\ \A i \in DOMAIN reads : reads[i] = "fail" => i = Len(reads)
    /\ (pc \notin {"idle", "done"}) => (reads = AllOk(Len(reads)))
    /\ (pc = "done") =>
         \/ /\ res[1].success
            /\ res[1].status = 200
            /\ DOMAIN res[1] = {"status", "success", "data"}
            /\ DataComplete(loc.route, res[1].data)
            /\ reads = AllOk(NumReads(loc.route))
         \/ /\ ~res[1].success
            /\ res[1].status = 500
            /\ DOMAIN res[1] = {"status", "success", "message", "error"}
            /\ Len(reads) <= NumReads(loc.route)
            /\ reads = Append(AllOk(Len(reads) - 1), "fail")

C5_Witness ==
    /\ pc = "done"
    /\ loc.route = "submissions"
    /\ reads = <<"ok", "fail">>
    /\ res = <<ServerError>>

====
